---- MODULE Spec2Model ----
(***************************************************************************)
(* Model of src/app.py: the arithmetic / geometric sequence calculator.    *)
(*                                                                         *)
(* Numbers.  The program computes with Python floats.  The model computes  *)
(* with exact rationals <<numerator, denominator>> in lowest terms.  On    *)
(* the inputs the model draws (small integers and halves) every float      *)
(* operation of the program is exact, so the two agree; rounding of values *)
(* that a double cannot hold is outside the model.  The one float          *)
(* behaviour that changes control flow is modelled: `x ** n` raises        *)
(* OverflowError when its result leaves the double range.  PowLimit stands *)
(* for that range, scaled down so that the model checker can reach it.     *)
(***************************************************************************)
EXTENDS Integers, Sequences, FiniteSets, TLC

\* ---------------------------------------------------------------- bounds
\* Largest magnitude `**` can return before it raises OverflowError.
PowLimit == 100
\* Largest term count for which every combination of inputs is enumerated.
SmallTerms == 5

\* ------------------------------------------------------ program constants
\* `if num_terms > 1000` (and max_value=1000 of the widget).
MaxTerms == 1000
\* `if num_terms <= 0`.
MinInvalid == 0
\* value=10 of the "Number of Terms" widget.
DefaultTerms == 10

\* ------------------------------------------------------------- rationals
Abs(x) == IF x < 0 THEN -x ELSE x

RECURSIVE GCD(_, _)
GCD(a, b) == IF b = 0 THEN a ELSE GCD(b, a % b)

\* The rational n/d (d # 0) in lowest terms with a positive denominator.
Norm(n, d) ==
    LET s == IF d < 0 THEN -1 ELSE 1
        g == GCD(Abs(n), Abs(d))
    IN  <<(s * n) \div g, (s * d) \div g>>

R(n) == <<n, 1>>
Zero == R(0)
One == R(1)
Half == <<1, 2>>

Add(x, y) == Norm(x[1] * y[2] + y[1] * x[2], x[2] * y[2])
Sub(x, y) == Norm(x[1] * y[2] - y[1] * x[2], x[2] * y[2])
Mul(x, y) == Norm(x[1] * y[1], x[2] * y[2])
RAbs(x) == <<Abs(x[1]), x[2]>>
IsZero(x) == x[1] = 0

\* ---------------------------------------------------- results of a call
\* A call either returns a value or raises; `raised` is "" when it returned.
Return(v) == [raised |-> "", value |-> v]
Raise(e, v) == [raised |-> e, value |-> v]

\* Python `x / y` on floats: ZeroDivisionError when y == 0.
Div(x, y) ==
    IF IsZero(y) THEN Raise("ZeroDivisionError", Zero)
    ELSE Return(Norm(x[1] * y[2], x[2] * y[1]))

\* Python `x ** e` for a float x and an int e: 0.0 ** 0 is 1.0, a negative
\* power of 0.0 raises ZeroDivisionError, a result outside the double range
\* raises OverflowError.  The power is built by squaring; magnitudes of
\* partial powers never exceed that of the result when |x| >= 1 and never
\* exceed 1 otherwise, so a partial power overflows only if the result does.
RECURSIVE Pow(_, _)
Pow(x, e) ==
    IF e = 0 THEN Return(One)
    ELSE IF e < 0
         THEN IF IsZero(x) THEN Raise("ZeroDivisionError", Zero)
              ELSE Pow(Norm(x[2], x[1]), -e)
    ELSE LET h == Pow(x, e \div 2)
         IN  IF h.raised # "" THEN h
             ELSE LET sq == Mul(h.value, h.value)
                      q == IF e % 2 = 1 THEN Mul(sq, x) ELSE sq
                  IN  IF Abs(sq[1]) > PowLimit * sq[2]
                         \/ Abs(q[1]) > PowLimit * q[2]
                      THEN Raise("OverflowError", Zero)
                      ELSE Return(q)

\* Python `sum(sequence)`: the terms from index lo to index hi, added up.
RECURSIVE SumRange(_, _, _)
SumRange(s, lo, hi) ==
    IF lo > hi THEN Zero
    ELSE IF lo = hi THEN s[lo]
    ELSE LET mid == (lo + hi) \div 2
         IN  Add(SumRange(s, lo, mid), SumRange(s, mid + 1, hi))

Sum(s) == SumRange(s, 1, Len(s))

\* ------------------------------------------------------------ the engine
\* A slip in the term: the index counted from 1 instead of 0.
ArithmeticTerm_from_one(first_term, common_difference, i) ==
    Add(first_term, Mul(R(i + 1), common_difference))

\* for i in range(num_terms): term = first_term + (i * common_difference)
ArithmeticTerm(first_term, common_difference, i) ==
    Add(first_term, Mul(R(i), common_difference))

\* A slip in the loop bound: the loop stops at the limit of 1000 terms.
calculate_arithmetic_sequence_clamped(first_term, common_difference, num_terms) ==
    Return([k \in 1..(IF num_terms > MaxTerms THEN MaxTerms ELSE num_terms) |->
               Add(first_term, Mul(R(k - 1), common_difference))])

\* A slip in the loop bound: range(num_terms + 1).
calculate_arithmetic_sequence_one_more(first_term, common_difference, num_terms) ==
    Return([k \in 1..(num_terms + 1) |->
               Add(first_term, Mul(R(k - 1), common_difference))])

calculate_arithmetic_sequence(first_term, common_difference, num_terms) ==
    Return([k \in 1..num_terms |->
               ArithmeticTerm(first_term, common_difference, k - 1)])

\* A slip in the term: `*` written for `**`.
GeometricTerm_times(first_term, common_ratio, i) ==
    Return(Mul(first_term, Mul(common_ratio, R(i))))

\* A slip in the term: the exponent counted from 1 instead of 0.
GeometricTerm_from_one(first_term, common_ratio, i) ==
    LET p == Pow(common_ratio, i + 1)
    IN  IF p.raised # "" THEN p ELSE Return(Mul(first_term, p.value))

\* term = first_term * (common_ratio ** i)
GeometricTerm(first_term, common_ratio, i) ==
    LET p == Pow(common_ratio, i)
    IN  IF p.raised # "" THEN p ELSE Return(Mul(first_term, p.value))

\* The loop of calculate_geometric_sequence: the terms in index order; the
\* first term whose computation raises ends the loop with that exception.
calculate_geometric_sequence(first_term, common_ratio, num_terms) ==
    LET terms == [k \in 1..num_terms |->
                     GeometricTerm(first_term, common_ratio, k - 1)]
        bad == {k \in 1..num_terms : terms[k].raised # ""}
    IN  IF bad # {}
        THEN Raise(terms[CHOOSE k \in bad : \A j \in bad : k <= j].raised, <<>>)
        ELSE Return([k \in 1..num_terms |-> terms[k].value])

\* A slip in the closed form: the special case of a ratio of 1 left out.
calculate_geometric_series_sum_no_guard(first_term, common_ratio, num_terms) ==
    LET p == Pow(common_ratio, num_terms)
    IN  IF p.raised # "" THEN p
        ELSE Div(Mul(first_term, Sub(One, p.value)), Sub(One, common_ratio))

\* A slip in the closed form: the exponent num_terms - 1 for num_terms.
calculate_geometric_series_sum_exponent(first_term, common_ratio, num_terms) ==
    IF common_ratio = One
    THEN Return(Mul(first_term, R(num_terms)))
    ELSE LET p == Pow(common_ratio, num_terms - 1)
         IN  IF p.raised # "" THEN p
             ELSE Div(Mul(first_term, Sub(One, p.value)), Sub(One, common_ratio))

calculate_geometric_series_sum(first_term, common_ratio, num_terms) ==
    IF common_ratio = One
    THEN Return(Mul(first_term, R(num_terms)))
    ELSE LET p == Pow(common_ratio, num_terms)
         IN  IF p.raised # "" THEN p
             ELSE Div(Mul(first_term, Sub(One, p.value)), Sub(One, common_ratio))

\* ---------------------------------------------------------------- inputs
FirstTerms == {R(-1), Zero, One, R(2), R(10), R(100)}
Steps == {R(-3), R(-1), Zero, Half, One, R(2), R(3)}
NumTermsInputs == (-1 .. SmallTerms) \cup {DefaultTerms, MaxTerms, MaxTerms + 1}

\* Every combination of inputs is drawn for the term counts up to the
\* widget's default; for the term counts around the limit of 1000 a part of
\* them is (the powers of a proper fraction there are too small for the
\* model's integers).
LargeFirstTerms == {R(2)}
LargeSteps == {Zero, One, R(2)}

InputsFor(a, step, n) ==
    n <= DefaultTerms \/ (a \in LargeFirstTerms /\ step \in LargeSteps)

EngineInputs ==
    {a \in [first_term : FirstTerms, step : Steps, num_terms : NumTermsInputs] :
        InputsFor(a.first_term, a.step, a.num_terms)}

\* --------------------------------------------------------------- the page
Arithmetic == "Arithmetic Sequence"
Geometric == "Geometric Sequence"
SequenceTypes == {Arithmetic, Geometric}

\* The exception, if any, of the first call of `results` that raised.
FirstRaised(results) ==
    LET bad == {k \in 1..Len(results) : results[k].raised # ""}
    IN  IF bad = {} THEN ""
        ELSE results[CHOOSE k \in bad : \A j \in bad : k <= j].raised

Values(results) == [k \in 1..Len(results) |-> results[k].value]

\* The "Pattern Analysis" block of main.  The root taken for the growth
\* factor is irrational in general: the factor is kept as the base and the
\* exponent of the power, both computed as the code computes them.
PatternAnalysis(sequence_type, sequence, num_terms) ==
    LET n == Len(sequence)
    IN  IF ~(n > 1) THEN Return(<<>>)
        ELSE IF sequence_type = Arithmetic
        THEN LET differences ==
                     [k \in 1..(n - 1) |-> Sub(sequence[k + 1], sequence[k])]
                 slope ==
                     IF num_terms >= 3
                     THEN <<Div(Sub(sequence[n], sequence[1]), R(num_terms - 1))>>
                     ELSE <<>>
             IN  IF FirstRaised(slope) # "" THEN Raise(FirstRaised(slope), <<>>)
                 ELSE Return(<<differences, Values(slope)>>)
        ELSE LET ratios ==
                     [k \in 1..(n - 1) |->
                         IF ~IsZero(sequence[k])
                         THEN Div(sequence[k + 1], sequence[k])
                         ELSE Return(Zero)]
                 growth_factor ==
                     IF num_terms >= 2
                     THEN IF ~IsZero(sequence[1])
                          THEN <<Div(RAbs(sequence[n]), RAbs(sequence[1])),
                                 Div(One, R(num_terms - 1))>>
                          ELSE <<Return(Zero)>>
                     ELSE <<>>
                 raised == FirstRaised(ratios \o growth_factor)
             IN  IF raised # "" THEN Raise(raised, <<>>)
                 ELSE Return(<<Values(ratios), Values(growth_factor)>>)

\* What the page shows below the button after a run of the script.
\*   status    "idle" (button not pressed), "results" or "error"
\*   error     the text given to st.error, "" when there is none
\*   raised    the exception the try block raised, "" when there is none
\*   uncaught  an exception left main
\*   sequence, series_sum, pattern, summary: the rendered results, each <<>>
\*             when it was not rendered
Page(status, error, raised, uncaught, sequence, series_sum, pattern, summary) ==
    [status |-> status, error |-> error, raised |-> raised,
     uncaught |-> uncaught, sequence |-> sequence, series_sum |-> series_sum,
     pattern |-> pattern, summary |-> summary]

Idle == Page("idle", "", "", FALSE, <<>>, <<>>, <<>>, <<>>)

\* The body of the try block, lines 126-260: validation, the calculation,
\* then the tabs in order.  `raised` names the exception that ended it.
TryBlock(sequence_type, first_term, common_difference, common_ratio, num_terms) ==
    IF num_terms <= MinInvalid
    THEN Page("error", "Number of terms must be a positive integer.",
              "", FALSE, <<>>, <<>>, <<>>, <<>>)
    ELSE IF num_terms > MaxTerms
    THEN Page("error", "Number of terms cannot exceed 1000.",
              "", FALSE, <<>>, <<>>, <<>>, <<>>)
    ELSE LET seq == IF sequence_type = Arithmetic
                    THEN calculate_arithmetic_sequence(
                             first_term, common_difference, num_terms)
                    ELSE calculate_geometric_sequence(
                             first_term, common_ratio, num_terms)
             sequence == seq.value
             sum == IF sequence_type = Arithmetic
                    THEN Return(Sum(sequence))
                    ELSE calculate_geometric_series_sum(
                             first_term, common_ratio, num_terms)
             pattern == PatternAnalysis(sequence_type, sequence, num_terms)
             n == Len(sequence)
         IN  IF seq.raised # ""
             THEN Page("results", "", seq.raised, FALSE, <<>>, <<>>, <<>>, <<>>)
             ELSE IF sum.raised # ""
             THEN Page("results", "", sum.raised, FALSE, <<>>, <<>>, <<>>, <<>>)
             ELSE IF pattern.raised # ""
             THEN Page("results", "", pattern.raised, FALSE,
                       sequence, <<sum.value>>, <<>>, <<>>)
             ELSE Page("results", "", "", FALSE,
                       sequence, <<sum.value>>, pattern.value,
                       <<sequence[1], sequence[n], sum.value,
                         Sub(sequence[n], sequence[1])>>)

\* A slip in the handlers: only `except ValueError` is written.
ExceptClauses_ValueError_only(page) ==
    IF page.raised = "" THEN page
    ELSE IF page.raised = "ValueError"
    THEN [page EXCEPT !.status = "error", !.error = "Invalid input: "]
    ELSE [page EXCEPT !.uncaught = TRUE]

\* except ValueError / except Exception, lines 262-265.
ExceptClauses(page) ==
    IF page.raised = "" THEN page
    ELSE IF page.raised = "ValueError"
    THEN [page EXCEPT !.status = "error", !.error = "Invalid input: "]
    ELSE [page EXCEPT !.status = "error", !.error = "An error occurred: "]

\* if st.button("Calculate Sequence"): try: ... except ...
ButtonPressed(sequence_type, first_term, common_difference, common_ratio, num_terms) ==
    ExceptClauses(TryBlock(sequence_type, first_term, common_difference,
                           common_ratio, num_terms))

\* ------------------------------------------------------------- the state
\* The page: the values of the widgets and what is shown below the button.
VARIABLES sequence_type, first_term, common_difference, common_ratio,
          num_terms, shown
\* For each input of Probes, the page its first calculation showed.
VARIABLES first_shown
\* The engine called on its own: the arguments and what each function did.
VARIABLES e_args, e_arith, e_geo, e_gsum

inputs == <<sequence_type, first_term, common_difference, common_ratio, num_terms>>
pvars == <<sequence_type, first_term, common_difference, common_ratio,
           num_terms, shown, first_shown>>
evars == <<e_args, e_arith, e_geo, e_gsum>>
vars == <<pvars, evars>>

NotCalled == [called |-> FALSE, raised |-> "", value |-> <<>>]
NotCalledSum == [called |-> FALSE, raised |-> "", value |-> Zero]
Called(r) == [called |-> TRUE, raised |-> r.raised, value |-> r.value]

EngineIdle ==
    /\ e_args = [first_term |-> One, step |-> One, num_terms |-> DefaultTerms]
    /\ e_arith = NotCalled
    /\ e_geo = NotCalled
    /\ e_gsum = NotCalledSum

\* Inputs whose first outcome is remembered.
Probes ==
    {<<Geometric, R(2), Zero, R(3), 5>>,
     <<Geometric, One, Zero, Half, 0>>}

NotShown == [seen |-> FALSE, page |-> Idle]

\* The widgets as first rendered (value=1.0, value=1.0, value=10; the radio
\* shows its first option) and nothing below the button.
PageInit ==
    /\ sequence_type = Arithmetic
    /\ first_term = One
    /\ common_difference = One
    /\ common_ratio = One
    /\ num_terms = DefaultTerms
    /\ shown = Idle
    /\ first_shown = [p \in Probes |-> NotShown]

\* The step of the selected kind: the difference or the ratio.
Step == IF sequence_type = Arithmetic THEN common_difference ELSE common_ratio

\* Every interaction reruns the script; st.button is False in a rerun that
\* a widget caused, so nothing is shown below the button.
SelectSequenceType(t) ==
    /\ t # sequence_type
    /\ sequence_type' = t
    /\ common_difference' = IF t = Arithmetic THEN One ELSE Zero
    /\ common_ratio' = IF t = Arithmetic THEN One ELSE R(2)
    /\ InputsFor(first_term, IF t = Arithmetic THEN One ELSE R(2), num_terms)
    /\ shown' = Idle
    /\ UNCHANGED <<first_term, num_terms, first_shown, evars>>

EnterFirstTerm(v) ==
    /\ v # first_term
    /\ InputsFor(v, Step, num_terms)
    /\ first_term' = v
    /\ shown' = Idle
    /\ UNCHANGED <<sequence_type, common_difference, common_ratio, num_terms,
                   first_shown, evars>>

EnterCommonDifference(v) ==
    /\ sequence_type = Arithmetic
    /\ v # common_difference
    /\ InputsFor(first_term, v, num_terms)
    /\ common_difference' = v
    /\ shown' = Idle
    /\ UNCHANGED <<sequence_type, first_term, common_ratio, num_terms,
                   first_shown, evars>>

EnterCommonRatio(v) ==
    /\ sequence_type = Geometric
    /\ v # common_ratio
    /\ InputsFor(first_term, v, num_terms)
    /\ common_ratio' = v
    /\ shown' = Idle
    /\ UNCHANGED <<sequence_type, first_term, common_difference, num_terms,
                   first_shown, evars>>

\* The widget is declared with min_value=1 and max_value=1000; the handler
\* does not rely on that and checks the value it is given, so the model
\* hands it every integer of NumTermsInputs.
EnterNumTerms(n) ==
    /\ n # num_terms
    /\ InputsFor(first_term, Step, n) \/ n > MaxTerms
    /\ num_terms' = n
    /\ shown' = Idle
    /\ UNCHANGED <<sequence_type, first_term, common_difference, common_ratio,
                   first_shown, evars>>

\* The button: the script reruns with st.button True.
Calculate ==
    /\ shown' = ButtonPressed(sequence_type, first_term, common_difference,
                              common_ratio, num_terms)
    /\ first_shown' =
           IF inputs \in Probes /\ ~first_shown[inputs].seen
           THEN [first_shown EXCEPT ![inputs] = [seen |-> TRUE, page |-> shown']]
           ELSE first_shown
    /\ UNCHANGED <<sequence_type, first_term, common_difference, common_ratio,
                   num_terms, evars>>

Init == PageInit /\ EngineIdle

Next ==
    \/ \E t \in SequenceTypes : SelectSequenceType(t)
    \/ \E v \in FirstTerms : EnterFirstTerm(v)
    \/ \E v \in Steps : EnterCommonDifference(v)
    \/ \E v \in Steps : EnterCommonRatio(v)
    \/ \E n \in NumTermsInputs : EnterNumTerms(n)
    \/ Calculate

Spec == Init /\ [][Next]_vars

EngineInit ==
    /\ PageInit
    /\ e_args \in EngineInputs
    /\ e_arith = NotCalled
    /\ e_geo = NotCalled
    /\ e_gsum = NotCalledSum

CallArithmetic ==
    /\ ~e_arith.called
    /\ e_arith' = Called(calculate_arithmetic_sequence(
                            e_args.first_term, e_args.step, e_args.num_terms))
    /\ UNCHANGED <<e_args, e_geo, e_gsum, pvars>>

CallGeometric ==
    /\ ~e_geo.called
    /\ e_geo' = Called(calculate_geometric_sequence(
                          e_args.first_term, e_args.step, e_args.num_terms))
    /\ UNCHANGED <<e_args, e_arith, e_gsum, pvars>>

CallGeometricSum ==
    /\ ~e_gsum.called
    /\ e_gsum' = Called(calculate_geometric_series_sum(
                           e_args.first_term, e_args.step, e_args.num_terms))
    /\ UNCHANGED <<e_args, e_arith, e_geo, pvars>>

EngineNext == CallArithmetic \/ CallGeometric \/ CallGeometricSum

SpecEngine == EngineInit /\ [][EngineNext]_vars

\* --------------------------------------------------- claims on the page
\* A term count the validation of main accepts.
ValidTerms(n) == n > MinInvalid /\ n <= MaxTerms

\* The page shows the outcome of a calculation of the current inputs.
Calculated == shown.status # "idle"

\* C6: with a term count of 1, for either kind, the calculation shows
\* results, the sequence shown is exactly [first_term] and the series sum
\* shown is first_term.
C6_SingleTerm ==
    (num_terms = 1 /\ Calculated) =>
        /\ shown.status = "results"
        /\ shown.sequence = <<first_term>>
        /\ shown.series_sum = <<first_term>>

C6_Witness ==
    /\ num_terms = 1 /\ sequence_type = Geometric
    /\ common_ratio = R(3) /\ first_term = R(10)
    /\ shown.status = "results" /\ shown.series_sum = <<R(10)>>

\* C7: a calculation with a term count <= 0 or > 1000 shows an error
\* message and no sequence, sum, pattern analysis or summary; an exception
\* raised in the try block is turned into an error message and never leaves
\* main; and a calculation shows what the first calculation of the same
\* inputs showed, whatever was calculated in between.
C7_ErrorsSurfaced ==
    /\ (Calculated /\ ~ValidTerms(num_terms)) =>
          /\ shown.status = "error"
          /\ shown.error = (IF num_terms <= MinInvalid
                            THEN "Number of terms must be a positive integer."
                            ELSE "Number of terms cannot exceed 1000.")
          /\ shown.raised = ""
          /\ shown.sequence = <<>> /\ shown.series_sum = <<>>
          /\ shown.pattern = <<>> /\ shown.summary = <<>>
    /\ ~shown.uncaught
    /\ shown.raised # "" =>
          (shown.status = "error" /\ shown.error # "" /\ shown.summary = <<>>)
    /\ \A p \in Probes :
          (Calculated /\ inputs = p /\ first_shown[p].seen) =>
              shown = first_shown[p].page

C7_Witness ==
    /\ inputs = <<Geometric, R(2), Zero, R(3), 5>>
    /\ shown.raised = "OverflowError"
    /\ shown.status = "error" /\ shown.error = "An error occurred: "
    /\ first_shown[<<Geometric, One, Zero, Half, 0>>].seen
    /\ first_shown[<<Geometric, One, Zero, Half, 0>>].page.status = "error"
    /\ first_shown[inputs].seen

\* C10: no calculation divides by zero: the try block never raises
\* ZeroDivisionError, and for accepted inputs with a ratio of 1, or a zero
\* first term, or one or two terms, the whole page is rendered.
C10_NoDivisionByZero ==
    /\ shown.raised # "ZeroDivisionError"
    /\ (Calculated /\ ValidTerms(num_terms) /\ num_terms <= SmallTerms
          /\ (common_ratio = One \/ first_term = Zero \/ num_terms <= 2)) =>
          (shown.raised \in {"", "OverflowError"}
           /\ (shown.raised = "" => shown.summary # <<>>))
    /\ (Calculated /\ ValidTerms(num_terms) /\ sequence_type = Geometric
          /\ common_ratio = One) =>
          shown.series_sum = <<Mul(first_term, R(num_terms))>>

C10_Witness ==
    /\ sequence_type = Geometric /\ common_ratio = One
    /\ first_term = Zero /\ num_terms = 2
    /\ shown.status = "results"
    /\ shown.pattern = <<<<Zero>>, <<Zero>>>>
    /\ shown.summary = <<Zero, Zero, Zero, Zero>>

\* ------------------------------------------------- claims on the engine
Returned(r) == r.called /\ r.raised = ""

\* C1 (as claimed): for a term count in [1,1000], whenever
\* calculate_geometric_sequence returns its terms, the closed form
\* calculate_geometric_series_sum returns a value and that value equals the
\* direct sum of those terms.
C1_ClosedFormEqualsDirectSum ==
    (ValidTerms(e_args.num_terms) /\ Returned(e_geo) /\ e_gsum.called)
        => (e_gsum.raised = "" /\ e_gsum.value = Sum(e_geo.value))

C4_ArithmeticTerms ==
    (ValidTerms(e_args.num_terms) /\ e_arith.called) =>
        /\ e_arith.raised = ""
        /\ e_arith.value[1] = e_args.first_term
        /\ \A k \in 1..(Len(e_arith.value) - 1) :
              Sub(e_arith.value[k + 1], e_arith.value[k]) = e_args.step

\* generateArithmetic(2, 2, 5) == [2,4,6,8,10], sum = 30.
C4_Witness ==
    /\ e_arith.called
    /\ e_arith.value = <<R(2), R(4), R(6), R(8), R(10)>>
    /\ Sum(e_arith.value) = R(30)
    /\ e_args.step = R(2)

C8_ZeroRatioAllZero ==
    (e_args.step = Zero /\ ValidTerms(e_args.num_terms) /\ Returned(e_geo)) =>
        \A k \in 1..Len(e_geo.value) : e_geo.value[k] = Zero

\* C8 (amended): with common_ratio == 0 the first term returned is
\* first_term (0.0 ** 0 is 1.0) and every later term is 0; the function
\* returns, without any special case.
C8_ZeroRatioKeepsFirstTerm ==
    (e_args.step = Zero /\ ValidTerms(e_args.num_terms) /\ e_geo.called) =>
        /\ e_geo.raised = ""
        /\ Len(e_geo.value) = e_args.num_terms
        /\ e_geo.value[1] = e_args.first_term
        /\ \A k \in 2..Len(e_geo.value) : e_geo.value[k] = Zero

C8_Witness ==
    /\ e_args.step = Zero
    /\ Returned(e_geo)
    /\ e_geo.value = <<R(10), Zero, Zero>>

\* C9 (as claimed): with first_term == 0, for every ratio and every term
\* count in [1,1000], every term returned is 0 and
\* calculate_geometric_series_sum returns 0.
C9_ZeroFirstTerm ==
    (e_args.first_term = Zero /\ ValidTerms(e_args.num_terms)) =>
        /\ Returned(e_geo) => \A k \in 1..Len(e_geo.value) : e_geo.value[k] = Zero
        /\ e_gsum.called => (e_gsum.raised = "" /\ e_gsum.value = Zero)
====
